---------------------------- MODULE Spec2Model ----------------------------
(***************************************************************************)
(* The orchestration engine of pooolify: PooolifyApp.add_message and       *)
(* PooolifyApp._orchestrate_internal (src/core/app.py).                    *)
(*                                                                         *)
(* One request is followed from intake to its terminal outcome: the        *)
(* planner's raw output is normalized, the plan is grouped by step and     *)
(* executed (PARALLEL batch under asyncio.gather, then the ISOLATED tasks  *)
(* one by one), the results are handed to the final synthesis, and the     *)
(* controller either re-plans (a recursive call) or terminates.            *)
(*                                                                         *)
(* Encoding of JSON values.  TLC compares values of one type only, so a    *)
(* raw JSON value is a record that carries its type tag:                   *)
(*   step      [t, v]   t in "missing","null","int","numstr","str","float",*)
(*                      "list"; v the integer (int, numstr) or the number  *)
(*                      of tenths (float)                                  *)
(*   name      a string; NoName stands for an absent, null or non-string   *)
(*             name, "" and " " are blank names                            *)
(*   runMode   a string; NoMode stands for an absent or null runMode       *)
(*   list      [isList, l]                                                 *)
(* A formatted result f"[{name}] ..." is the record [name, kind]: kind     *)
(* tells which of the four format strings of _run_one produced it.         *)
(***************************************************************************)
EXTENDS Integers, Sequences, FiniteSets, TLC

\* ------------------------------------------------------------------ bounds
MaxTasks == 2       \* longest agent list of the whole-controller specification
MaxBatch == 3       \* longest agent list without routing
MaxProducers == 2   \* most producers before the consumer of a routed list
MaxRepair == 1      \* longest agent list of entries the normalizer repairs

\* ------------------------------------------------------- program constants
max_loops == 3      \* add_message: _orchestrate_internal(..., max_loops=3)
first_loop == 1     \* add_message: _orchestrate_internal(..., loop_count=1)

\* --------------------------------------------------------------- alphabet
NoName == "<none>"
NoMode == "<none>"
NoResult == [name |-> "<none>", kind |-> "none"]

Registered == {"a", "b"}          \* names agent_manager.get_agent resolves
Unregistered == {"x"}             \* a name with no registered agent
Names == Registered \cup Unregistered

\* agent_manager.get_agent(name): the agent, or None
get_agent(name) == name \in Registered

\* ------------------------------------------------------------ normalizer
\* str.strip() on the names the planner writes
Strip(s) == IF s = " " THEN "" ELSE s

\* str.upper() on the run modes the planner writes
Upper(s) ==
  CASE s = "parallel" -> "PARALLEL"
    [] s = "isolated" -> "ISOLATED"
    [] s = "serial" -> "SERIAL"
    [] OTHER -> s

\* Python truthiness of a raw step value: None, 0, 0.0, "" and [] are falsy
Truthy(raw) ==
  CASE raw.t = "null" -> FALSE
    [] raw.t = "int" -> raw.v # 0
    [] raw.t = "float" -> raw.v # 0
    [] raw.t = "numstr" -> TRUE
    [] raw.t = "str" -> TRUE
    [] raw.t = "list" -> TRUE
    [] OTHER -> FALSE

\* int(x) of a truthy x: [ok, v]; ok = FALSE when int() raises
\* (int of a float truncates towards zero; v counts tenths)
TruncTenths(v) == IF v >= 0 THEN v \div 10 ELSE -((-v) \div 10)

IntOf(raw) ==
  CASE raw.t = "int" -> [ok |-> TRUE, v |-> raw.v]
    [] raw.t = "numstr" -> [ok |-> TRUE, v |-> raw.v]
    [] raw.t = "float" -> [ok |-> TRUE, v |-> TruncTenths(raw.v)]
    [] OTHER -> [ok |-> FALSE, v |-> 0]

\* try: step_val = int(item.get("step", 1) or 1)  except: step_val = 1
StepVal(raw) ==
  IF raw.t = "missing" \/ ~Truthy(raw) THEN 1
  ELSE IF IntOf(raw).ok THEN IntOf(raw).v ELSE 1

\* run_mode = str(item.get("runMode") or "PARALLEL").upper(); not one of the
\* two valid values -> "PARALLEL"
RunModeVal(raw) ==
  LET m == IF raw = NoMode \/ raw = "" THEN "PARALLEL" ELSE Upper(raw)
  IN IF m \in {"PARALLEL", "ISOLATED"} THEN m ELSE "PARALLEL"

\* if not isinstance(deps, list): item["dependsOn"] = []
ListVal(raw) == IF raw.isList THEN raw.l ELSE << >>

\* a non-dict entry becomes {"name": str(item)}; here item.name is str(item)
\* an entry whose name is not a non-blank string is dropped
KeepItem(item) == item.name # NoName /\ Strip(item.name) # ""

NormalizeItem(item) ==
  IF item.kind = "scalar"
  THEN [name |-> item.name, step |-> 1, runMode |-> "PARALLEL",
        dependsOn |-> << >>, outputsTo |-> << >>]
  ELSE [name |-> item.name, step |-> StepVal(item.step),
        runMode |-> RunModeVal(item.runMode),
        dependsOn |-> ListVal(item.dependsOn),
        outputsTo |-> ListVal(item.outputsTo)]

RECURSIVE NormalizeItems(_)
NormalizeItems(items) ==
  IF items = << >> THEN << >>
  ELSE LET rest == NormalizeItems(Tail(items))
       IN IF KeepItem(Head(items))
          THEN <<NormalizeItem(Head(items))>> \o rest
          ELSE rest

\* the fallback of the except branch
FallbackPlan == [isRunAgent |-> FALSE, agent |-> << >>, source |-> "fallback"]

\* AnalysisResult(**analysis_data): the schema accepts a boolean isRunAgent
\* and a list of task objects
SchemaAccepts(raw) == raw.isRunAgent \in {"true", "false"} /\ raw.agentKind \in {"missing", "null", "list"}

\* faulty variant: only json.loads lies in the try
NormalizeJsonOnly(raw) ==
  IF raw.kind = "invalid" THEN FallbackPlan
  ELSE [isRunAgent |-> (raw.isRunAgent # "false"),
        agent |-> IF raw.agentKind = "list" THEN NormalizeItems(raw.items) ELSE << >>,
        source |-> "schema"]

\* lines 179-230: json.loads, the repair of the agent list, the schema, and
\* the fallback for every exception
Normalize(raw) ==
  IF raw.kind # "object" THEN FallbackPlan
  ELSE IF ~SchemaAccepts(raw) THEN FallbackPlan
  ELSE [isRunAgent |-> (raw.isRunAgent = "true"),
        agent |-> IF raw.agentKind = "list" THEN NormalizeItems(raw.items) ELSE << >>,
        source |-> "schema"]


\* ------------------------------------------------------- planner outputs
IntStep(k) == [t |-> "int", v |-> k]
GoodList(l) == [isList |-> TRUE, l |-> l]
BadList == [isList |-> FALSE, l |-> << >>]

Item(n, s, m, d, o) ==
  [kind |-> "object", name |-> n, step |-> s, runMode |-> m,
   dependsOn |-> d, outputsTo |-> o]

DefaultItem == Item("a", IntStep(1), "PARALLEL", GoodList(<< >>), GoodList(<< >>))

\* a JSON scalar in the agent list: name holds str(item)
ScalarItem(n) == [DefaultItem EXCEPT !.kind = "scalar", !.name = n]

Modes == {"PARALLEL", "ISOLATED"}
NoLinks == GoodList(<< >>)

UpTo(S, n) == UNION {[1..k -> S] : k \in 0..n}

\* well-typed entries without routing: a registered name in two steps and an
\* unregistered one in the first
PlainItems ==
  {Item("a", IntStep(1), m, NoLinks, NoLinks) : m \in Modes}
    \cup {Item("a", IntStep(2), "ISOLATED", NoLinks, NoLinks)}
    \cup {Item("x", IntStep(1), "PARALLEL", NoLinks, NoLinks)}

\* well-typed entries with routing: PARALLEL producers at step 2 that may name
\* "b" in outputsTo, followed by a consumer "b" that may depend on them and
\* lies in an earlier step, in their step or in a later one
DepLists == {<< >>, <<"a">>, <<"a", "a">>}
OutLists == {<< >>, <<"b">>}

ProducerItems ==
  {Item("a", IntStep(2), "PARALLEL", NoLinks, GoodList(o)) : o \in OutLists}
    \cup {Item("b", IntStep(2), "PARALLEL", NoLinks, GoodList(<<"b">>))}

ConsumerItems ==
  {Item("b", IntStep(2), m, GoodList(d), NoLinks) : m \in Modes, d \in DepLists}
    \cup {Item("b", IntStep(s), "PARALLEL", GoodList(d), NoLinks) : s \in {1, 3}, d \in DepLists}

Pipelines ==
  {ps \o <<c>> : ps \in UpTo(ProducerItems, MaxProducers), c \in ConsumerItems}

\* two tasks of one step, an ISOLATED producer and a consumer that depends
\* on it, in both orders
Chains ==
  UNION {{<<Item("a", IntStep(1), "ISOLATED", NoLinks, NoLinks),
            Item("b", IntStep(1), m, GoodList(<<"a">>), NoLinks)>>,
          <<Item("b", IntStep(1), m, GoodList(<<"a">>), NoLinks),
            Item("a", IntStep(1), "ISOLATED", NoLinks, NoLinks)>>} : m \in Modes}

\* entries the normalizer repairs or drops: one field off the default
RawNames == {"b", "x", "", " ", NoName}
RawSteps ==
  {[t |-> "missing", v |-> 0], [t |-> "null", v |-> 0], [t |-> "str", v |-> 0],
   [t |-> "list", v |-> 0], [t |-> "numstr", v |-> 0], [t |-> "numstr", v |-> 2],
   [t |-> "float", v |-> 5], [t |-> "float", v |-> 25]}
   \cup {IntStep(k) : k \in -1..0}
RawModes == {"isolated", "parallel", "serial", "", NoMode}

RepairItems ==
  {[DefaultItem EXCEPT !.name = n] : n \in RawNames}
  \cup {[DefaultItem EXCEPT !.step = s] : s \in RawSteps}
  \cup {[DefaultItem EXCEPT !.runMode = m] : m \in RawModes}
  \cup {[DefaultItem EXCEPT !.dependsOn = BadList], [DefaultItem EXCEPT !.outputsTo = BadList]}
  \cup {ScalarItem(n) : n \in {"a", "x"}}

RawObject(r, k, items) == [kind |-> "object", isRunAgent |-> r, agentKind |-> k, items |-> items]

\* what llm_stream_text returns that is no plan: text that is no JSON, JSON
\* that is no object, an agent field that is no list, a field the schema rejects
Malformed ==
  {[kind |-> k, isRunAgent |-> "true", agentKind |-> "list", items |-> <<DefaultItem>>] :
     k \in {"invalid", "scalar"}}
  \cup {RawObject(r, "other", <<DefaultItem>>) : r \in {"true", "false"}}
  \cup {RawObject("other", k, <<DefaultItem>>) : k \in {"missing", "null", "list"}}

Objects(lists) ==
  {RawObject(r, "list", l) : r \in {"true", "false"}, l \in lists}
  \cup {RawObject(r, k, <<DefaultItem>>) : r \in {"true", "false"}, k \in {"missing", "null"}}

\* the planner's outputs of the whole-controller specification
ShortItems ==
  {Item(n, IntStep(1), m, NoLinks, NoLinks) : n \in {"a", "x"}, m \in Modes}
    \cup {Item("a", IntStep(2), "PARALLEL", NoLinks, NoLinks)}

PlannerOutputs == Malformed \cup Objects(UpTo(ShortItems, MaxTasks))

\* the planner's outputs of the one-round specification
RoundOutputs ==
  Malformed
  \cup Objects(UpTo(PlainItems, MaxBatch) \cup Pipelines \cup Chains
                 \cup UpTo(RepairItems, MaxRepair))

\* ------------------------------------------------------------------ state
VARIABLES
  pc,               \* where the worker is: intake, enter, planning, exec, synth, done, escaped
  ack,              \* what add_message returned ("none" before it returns)
  loop_count,       \* loop_count of the innermost call of _orchestrate_internal
  user_message,     \* its user_message
  response,         \* the shape of analysis_response, the planner's text
  plan,             \* analysis_result of the round
  step,             \* the key of step_to_tasks the for loop is at
  phase,            \* "par": the gather of the step is awaited; "iso": its isolated loop
  st,               \* per task: pending, running, finished (returned, not recorded), recorded
  out,              \* per task: what _run_one returned
  ctx,              \* per task: the context handed to run_agent_once
  result_by_agent,  \* name -> formatted result (NoResult: key absent)
  agent_results,    \* the cumulative results list
  order,            \* the task each entry of agent_results came from
  synthCtx,         \* the results the final prompt was built from
  final_summary,    \* the decoded FinalSummary of the round (NoSummary before)
  prev_summary,     \* final_summary_result in the caller's frame: what the round before decoded
  planCalls,        \* calls of the planning collaborator (request)
  synthCalls,       \* calls of the synthesis collaborator (request)
  runCalls,         \* per task: calls of tool_executor.run_agent_once
  endRequests,      \* calls of conversation.end_request
  completions,      \* the calls of conversation.add_completion_message, in order
  errors,           \* calls of conversation.accumulate_error
  notes,            \* budget notes appended to the answer
  exit              \* which terminal path was taken ("none" while in flight)

vars ==
  <<pc, ack, loop_count, user_message, response, plan, step, phase, st, out, ctx,
    result_by_agent, agent_results, order, synthCtx, final_summary, prev_summary,
    planCalls, synthCalls, runCalls, endRequests, completions, errors, notes, exit>>

\* the locals of one call of _orchestrate_internal
roundVars ==
  <<response, plan, step, phase, st, out, ctx, result_by_agent, agent_results,
    order, synthCtx, final_summary, runCalls>>

NoNext == "<none>"
NoSummary == [isComplete |-> FALSE, decoded |-> FALSE]
NoPrevious == [isComplete |-> FALSE, nextAction |-> NoNext, decoded |-> FALSE]
NoPlan == [isRunAgent |-> FALSE, agent |-> << >>, source |-> "none"]
NoResponse == [kind |-> "none", isRunAgent |-> "none", agentKind |-> "none"]
EmptyMap == [n \in Names |-> NoResult]

FreshRound ==
  /\ response' = NoResponse
  /\ plan' = NoPlan
  /\ step' = 0
  /\ phase' = "none"
  /\ st' = << >>
  /\ out' = << >>
  /\ ctx' = << >>
  /\ result_by_agent' = EmptyMap
  /\ agent_results' = << >>
  /\ order' = << >>
  /\ synthCtx' = << >>
  /\ final_summary' = NoSummary
  /\ runCalls' = << >>

\* ---------------------------------------------------------- task graph
Tasks == plan.agent
TaskIdx == 1..Len(Tasks)

\* step_value = getattr(task, "step", 1) or 1; step_int = int(step_value)
StepKey(t) == IF t.step = 0 THEN 1 ELSE t.step

StepKeys(tasks) == {StepKey(tasks[i]) : i \in 1..Len(tasks)}

Min(S) == CHOOSE m \in S : \A k \in S : m <= k

\* faulty variant: the keys are taken in insertion order, without sorted()
FirstStepUnsorted(tasks) == StepKey(tasks[1])

\* sorted(step_to_tasks.keys()): the first key, and the key after k
FirstStep(tasks) == Min(StepKeys(tasks))
LaterSteps(tasks, k) == {j \in StepKeys(tasks) : j > k}
NextStep(tasks, k) == Min(LaterSteps(tasks, k))

InStep(i) == StepKey(Tasks[i]) = step
IsParallel(t) == t.runMode = "PARALLEL"
IsIsolated(t) == t.runMode = "ISOLATED"

\* parallel_tasks / isolated_tasks of the step at hand, as index sets
ParallelIdx == {i \in TaskIdx : InStep(i) /\ IsParallel(Tasks[i])}
IsolatedIdx == {i \in TaskIdx : InStep(i) /\ IsIsolated(Tasks[i])}

HasParallel(tasks, k) ==
  \E i \in 1..Len(tasks) : StepKey(tasks[i]) = k /\ IsParallel(tasks[i])

\* faulty variant: the task list is tested, not the agents it resolves to
AnyListed(tasks) == tasks # << >>

\* selected_agents is non-empty
AnySelected(tasks) == \E i \in 1..Len(tasks) : get_agent(tasks[i].name)

\* ------------------------------------------------------- context router
Contains(seq, x) == \E k \in 1..Len(seq) : seq[k] = x

RECURSIVE Repeat(_, _)
Repeat(x, n) == IF n = 0 THEN << >> ELSE <<x>> \o Repeat(x, n - 1)

Count(seq, x) == Cardinality({k \in 1..Len(seq) : seq[k] = x})

\* incoming_from_outputs[dst]: the senders, in plan order, one entry for
\* each time a sender lists dst
RECURSIVE Incoming(_, _)
Incoming(tasks, dst) ==
  IF tasks = << >> THEN << >>
  ELSE Repeat(Head(tasks).name, Count(Head(tasks).outputsTo, dst)) \o Incoming(Tail(tasks), dst)

\* faulty variant: a dependency is read without the test for its key
RECURSIVE FromDepsUnchecked(_, _)
FromDepsUnchecked(deps, map) ==
  IF deps = << >> THEN << >>
  ELSE <<map[Head(deps)]>> \o FromDepsUnchecked(Tail(deps), map)

\* for dep in deps: if dep in result_by_agent: append
RECURSIVE FromDeps(_, _)
FromDeps(deps, map) ==
  IF deps = << >> THEN << >>
  ELSE (IF map[Head(deps)] # NoResult THEN <<map[Head(deps)]>> ELSE << >>)
       \o FromDeps(Tail(deps), map)

\* faulty variant: the sender is not looked up in deps
RECURSIVE FromOutputsAll(_, _, _)
FromOutputsAll(srcs, deps, map) ==
  IF srcs = << >> THEN << >>
  ELSE (IF map[Head(srcs)] # NoResult THEN <<map[Head(srcs)]>> ELSE << >>)
       \o FromOutputsAll(Tail(srcs), deps, map)

\* for src in from_outputs: if src in result_by_agent and src not in deps: append
RECURSIVE FromOutputs(_, _, _)
FromOutputs(srcs, deps, map) ==
  IF srcs = << >> THEN << >>
  ELSE (IF map[Head(srcs)] # NoResult /\ ~Contains(deps, Head(srcs))
        THEN <<map[Head(srcs)]>> ELSE << >>)
       \o FromOutputs(Tail(srcs), deps, map)

\* faulty variant: the senders come before the dependencies
ContextOutputsFirst(tasks, t, map) ==
  FromOutputs(Incoming(tasks, t.name), t.dependsOn, map) \o FromDeps(t.dependsOn, map)

\* context_sources of task t, given the result map
Context(tasks, t, map) ==
  FromDeps(t.dependsOn, map) \o FromOutputs(Incoming(tasks, t.name), t.dependsOn, map)

\* ----------------------------------------------------------- _run_one
Outcomes == {"ok", "empty", "raise"}    \* run_agent_once: text, falsy, raises

\* faulty variant: the missing agent is run like a failed one
NotFoundAsFailure(name) == [name |-> name, kind |-> "failed"]

NotFound(name) == [name |-> name, kind |-> "notfound"]

\* faulty variant: what is not a text is not formatted
FormatOkOnly(name, o) == IF o = "ok" THEN [name |-> name, kind |-> "ok"] ELSE NoResult

\* lines 322-328: "[name] text", the generic execution error for a falsy
\* result, the failure message for an exception
Format(name, o) ==
  [name |-> name,
   kind |-> CASE o = "ok" -> "ok" [] o = "empty" -> "error" [] OTHER -> "failed"]


\* --------------------------------------------------------------- intake
Init ==
  /\ pc = "intake"
  /\ ack = "none"
  /\ loop_count = 0
  /\ user_message = "q"
  /\ response = NoResponse
  /\ plan = NoPlan
  /\ step = 0
  /\ phase = "none"
  /\ st = << >>
  /\ out = << >>
  /\ ctx = << >>
  /\ result_by_agent = EmptyMap
  /\ agent_results = << >>
  /\ order = << >>
  /\ synthCtx = << >>
  /\ final_summary = NoSummary
  /\ prev_summary = NoPrevious
  /\ planCalls = 0
  /\ synthCalls = 0
  /\ runCalls = << >>
  /\ endRequests = 0
  /\ completions = << >>
  /\ errors = 0
  /\ notes = 0
  /\ exit = "none"

\* add_message up to line 126: asyncio.create_task(orchestrate()) makes the
\* worker, which waits at the entry of _orchestrate_internal for the loop
AddMessage ==
  /\ pc = "intake"
  /\ pc' = "enter"
  /\ loop_count' = first_loop
  /\ UNCHANGED <<ack, prev_summary, user_message, roundVars, planCalls, synthCalls,
                 endRequests, completions, errors, notes, exit>>

\* lines 128-133: add_message returns the acknowledgement
AddMessageReturn ==
  /\ pc # "intake"
  /\ ack = "none"
  /\ ack' = "processing"
  /\ UNCHANGED <<pc, prev_summary, loop_count, user_message, roundVars, planCalls,
                 synthCalls, endRequests, completions, errors, notes, exit>>

\* faulty variant: an await between create_task and the return lets the loop
\* run the worker before add_message has returned
WorkerRunsOnCreate == TRUE

\* no await lies between lines 126 and 129: the loop runs the worker only
\* when add_message has returned
WorkerMayRun == ack = "processing"

\* ------------------------------------------------------------ controller
\* faulty variant: the error is left out of the metadata
CompletionWithoutError(lc, err) ==
  [loopCount |-> lc, maxLoops |-> max_loops, complete |-> TRUE, error |-> FALSE]

\* add_completion_message(metadata={loopCount, maxLoops, complete, error?})
Completion(lc, err) ==
  [loopCount |-> lc, maxLoops |-> max_loops, complete |-> TRUE, error |-> err]

\* end_request and what the terminal path at hand does around it
Terminate(reason, records, errs, nts) ==
  /\ pc' = "done"
  /\ exit' = reason
  /\ endRequests' = endRequests + 1
  /\ completions' = completions \o records
  /\ errors' = errors + errs
  /\ notes' = notes + nts

\* lines 144-175: the conversation is obtained, the prompt built and the
\* planning collaborator called
Enter ==
  /\ pc = "enter"
  /\ WorkerMayRun
  /\ pc' = "planning"
  /\ planCalls' = planCalls + 1
  /\ UNCHANGED <<ack, prev_summary, loop_count, user_message, roundVars, synthCalls,
                 endRequests, completions, errors, notes, exit>>

\* line 144 raises: it lies before the try.  In the outermost call the error
\* leaves the worker; in a recursive call it reaches the caller's handler of
\* lines 414-429, which reports with the caller's loop_count (the handler
\* reads nothing else of the caller's frame)
EnterRaise ==
  /\ pc = "enter"
  /\ WorkerMayRun
  /\ IF loop_count = first_loop
     THEN /\ pc' = "escaped"
          /\ exit' = "escaped"
          /\ UNCHANGED <<loop_count, endRequests, completions, errors, notes>>
     ELSE /\ loop_count' = loop_count - 1
          /\ Terminate("reenter_error", <<Completion(loop_count - 1, TRUE)>>, 0, 0)
  /\ UNCHANGED <<ack, prev_summary, user_message, roundVars, planCalls, synthCalls>>

\* lines 431-446: the planning collaborator raises
PlanRaise ==
  /\ pc = "planning"
  /\ Terminate("unhandled", <<Completion(loop_count, TRUE)>>, 0, 0)
  /\ UNCHANGED <<ack, prev_summary, loop_count, user_message, roundVars, planCalls, synthCalls>>

\* lines 177-336: the planner returns raw; the plan is normalized and the
\* round ends (no run, no agent available) or reaches the first step
\* faulty variant: the task list is tested instead of the flag
RunsAgentsIfListed(p) == p.isRunAgent \/ p.agent # << >>

\* if not analysis_result.isRunAgent: end the request
RunsAgents(p) == p.isRunAgent

PlanWith(raw) ==
  /\ LET p == Normalize(raw)
         n == Len(p.agent)
     IN /\ response' = [kind |-> raw.kind, isRunAgent |-> raw.isRunAgent, agentKind |-> raw.agentKind]
        /\ plan' = p
        /\ st' = [i \in 1..n |-> "pending"]
        /\ out' = [i \in 1..n |-> NoResult]
        /\ ctx' = [i \in 1..n |-> << >>]
        /\ runCalls' = [i \in 1..n |-> 0]
        /\ IF ~RunsAgents(p)
           THEN /\ Terminate("no_run", << >>, 0, 0)
                /\ UNCHANGED <<step, phase>>
           ELSE IF ~AnySelected(p.agent)
           THEN /\ Terminate("no_agents", << >>, 1, 0)
                /\ UNCHANGED <<step, phase>>
           ELSE /\ pc' = "exec"
                /\ step' = FirstStep(p.agent)
                /\ phase' = IF HasParallel(p.agent, FirstStep(p.agent)) THEN "par" ELSE "iso"
                /\ UNCHANGED <<exit, endRequests, completions, errors, notes>>
  /\ UNCHANGED <<ack, prev_summary, loop_count, user_message, result_by_agent, agent_results,
                 order, synthCtx, final_summary, planCalls, synthCalls>>

Plan(outputs) == pc = "planning" /\ \E raw \in outputs : PlanWith(raw)


\* ------------------------------------------------------------- scheduler
Max(S) == CHOOSE m \in S : \A k \in S : m >= k

\* faulty variant: the batch is recorded last task first
RECURSIVE OrderedIdxReversed(_)
OrderedIdxReversed(S) ==
  IF S = {} THEN << >> ELSE <<Max(S)>> \o OrderedIdxReversed(S \ {Max(S)})

\* parallel_tasks keeps the order of the plan
RECURSIVE OrderedIdx(_)
OrderedIdx(S) == IF S = {} THEN << >> ELSE <<Min(S)>> \o OrderedIdx(S \ {Min(S)})

\* for name, formatted in results: result_by_agent[name] = formatted
RECURSIVE Recorded(_, _, _)
Recorded(map, idx, outs) ==
  IF idx = << >> THEN map
  ELSE Recorded([map EXCEPT ![outs[Head(idx)].name] = outs[Head(idx)]], Tail(idx), outs)

\* faulty variant: only the last result of the batch is appended
AppendedLast(list, idx, outs) ==
  IF idx = << >> THEN list ELSE Append(list, outs[idx[Len(idx)]])

\* ... agent_results.append(formatted)
RECURSIVE Appended(_, _, _)
Appended(list, idx, outs) ==
  IF idx = << >> THEN list
  ELSE Appended(Append(list, outs[Head(idx)]), Tail(idx), outs)

\* gather wraps the coroutines in tasks in list order and the loop runs its
\* ready queue first in, first out: the coroutines start in plan order
ParMayStart(i) ==
  /\ phase = "par"
  /\ i \in ParallelIdx
  /\ st[i] = "pending"
  /\ \A j \in ParallelIdx : j < i => st[j] # "pending"

\* results = await asyncio.gather(*coros) returns
BatchJoined == \A i \in ParallelIdx : st[i] = "finished"

\* faulty variant: the isolated tasks are launched with the batch
IsoMayStartWithBatch(i) ==
  /\ i \in IsolatedIdx
  /\ st[i] = "pending"

\* faulty variant: the isolated tasks are taken in any order
IsoMayStartAnyOrder(i) ==
  /\ phase = "iso"
  /\ i \in IsolatedIdx
  /\ st[i] = "pending"
  /\ \A j \in IsolatedIdx : st[j] # "running"

\* for t in isolated_tasks: name, formatted = await _run_one(t)
IsoMayStart(i) ==
  /\ phase = "iso"
  /\ i \in IsolatedIdx
  /\ st[i] = "pending"
  /\ \A j \in IsolatedIdx : j < i => st[j] = "recorded"

\* the body of the for loop over the steps is through
StepDone == phase = "iso" /\ \A i \in IsolatedIdx : st[i] = "recorded"

\* faulty variant: a coroutine of the batch writes its result on return, so
\* the next one to start reads it
LaunchSeesFinished(i) ==
  /\ st' = [st EXCEPT ![i] = "running"]
  /\ ctx' = [ctx EXCEPT ![i] =
        Context(Tasks, Tasks[i],
                Recorded(result_by_agent,
                         OrderedIdx({j \in ParallelIdx : st[j] = "finished"}), out))]
  /\ runCalls' = [runCalls EXCEPT ![i] = @ + 1]

\* _run_one up to its await: the agent is resolved, the context built and
\* run_agent_once called
Launch(i) ==
  /\ st' = [st EXCEPT ![i] = "running"]
  /\ ctx' = [ctx EXCEPT ![i] = Context(Tasks, Tasks[i], result_by_agent)]
  /\ runCalls' = [runCalls EXCEPT ![i] = @ + 1]

schedFrame ==
  <<pc, ack, prev_summary, loop_count, user_message, response, plan, step, synthCtx, final_summary,
    planCalls, synthCalls, endRequests, completions, errors, notes, exit>>

\* a coroutine of the PARALLEL batch starts
StartParallel(i) ==
  /\ pc = "exec"
  /\ ParMayStart(i)
  /\ IF get_agent(Tasks[i].name)
     THEN /\ Launch(i)
          /\ UNCHANGED out
     ELSE /\ st' = [st EXCEPT ![i] = "finished"]
          /\ out' = [out EXCEPT ![i] = NotFound(Tasks[i].name)]
          /\ UNCHANGED <<ctx, runCalls>>
  /\ UNCHANGED <<schedFrame, phase, result_by_agent, agent_results, order>>

\* run_agent_once of a PARALLEL task returns or raises
FinishParallel(i, o) ==
  /\ pc = "exec"
  /\ phase = "par"
  /\ i \in ParallelIdx
  /\ st[i] = "running"
  /\ st' = [st EXCEPT ![i] = "finished"]
  /\ out' = [out EXCEPT ![i] = Format(Tasks[i].name, o)]
  /\ UNCHANGED <<schedFrame, phase, ctx, runCalls, result_by_agent, agent_results, order>>

\* gather returns: the batch is recorded in list order
Join ==
  /\ pc = "exec"
  /\ phase = "par"
  /\ BatchJoined
  /\ result_by_agent' = Recorded(result_by_agent, OrderedIdx(ParallelIdx), out)
  /\ agent_results' = Appended(agent_results, OrderedIdx(ParallelIdx), out)
  /\ order' = order \o OrderedIdx(ParallelIdx)
  /\ st' = [i \in TaskIdx |-> IF i \in ParallelIdx THEN "recorded" ELSE st[i]]
  /\ phase' = "iso"
  /\ UNCHANGED <<schedFrame, out, ctx, runCalls>>

\* an ISOLATED task is awaited; without a registered agent _run_one returns
\* at once and the result is recorded
StartIsolated(i) ==
  /\ pc = "exec"
  /\ IsoMayStart(i)
  /\ IF get_agent(Tasks[i].name)
     THEN /\ Launch(i)
          /\ UNCHANGED <<out, result_by_agent, agent_results, order>>
     ELSE /\ st' = [st EXCEPT ![i] = "recorded"]
          /\ out' = [out EXCEPT ![i] = NotFound(Tasks[i].name)]
          /\ result_by_agent' = [result_by_agent EXCEPT ![Tasks[i].name] = NotFound(Tasks[i].name)]
          /\ agent_results' = Append(agent_results, NotFound(Tasks[i].name))
          /\ order' = Append(order, i)
          /\ UNCHANGED <<ctx, runCalls>>
  /\ UNCHANGED <<schedFrame, phase>>

\* run_agent_once of the ISOLATED task returns or raises; the result is recorded
FinishIsolated(i, o) ==
  /\ pc = "exec"
  /\ phase = "iso"
  /\ i \in IsolatedIdx
  /\ st[i] = "running"
  /\ st' = [st EXCEPT ![i] = "recorded"]
  /\ out' = [out EXCEPT ![i] = Format(Tasks[i].name, o)]
  /\ result_by_agent' = [result_by_agent EXCEPT ![Tasks[i].name] = Format(Tasks[i].name, o)]
  /\ agent_results' = Append(agent_results, Format(Tasks[i].name, o))
  /\ order' = Append(order, i)
  /\ UNCHANGED <<schedFrame, phase, ctx, runCalls>>

\* the for loop takes the next key of sorted(step_to_tasks.keys())
AdvanceStep ==
  /\ pc = "exec"
  /\ StepDone
  /\ LaterSteps(Tasks, step) # {}
  /\ step' = NextStep(Tasks, step)
  /\ phase' = IF HasParallel(Tasks, NextStep(Tasks, step)) THEN "par" ELSE "iso"
  /\ UNCHANGED <<pc, ack, prev_summary, loop_count, user_message, response, plan, st, out, ctx,
                 result_by_agent, agent_results, order, synthCtx, final_summary,
                 planCalls, synthCalls, runCalls, endRequests, completions,
                 errors, notes, exit>>

\* lines 351-383: the loop is over, the final prompt is built from
\* agent_results and the synthesis collaborator called
StartSynthesis ==
  /\ pc = "exec"
  /\ StepDone
  /\ LaterSteps(Tasks, step) = {}
  /\ pc' = "synth"
  /\ synthCalls' = synthCalls + 1
  /\ synthCtx' = agent_results
  /\ UNCHANGED <<ack, prev_summary, loop_count, user_message, response, plan, step, phase, st,
                 out, ctx, result_by_agent, agent_results, order, final_summary, planCalls,
                 runCalls, endRequests, completions, errors, notes, exit>>

\* ------------------------------------------------------ loop controller
NextActions == {NoNext, "", "n"}

\* the FinalSummary values the synthesis collaborator's output decodes to
Summaries == {[isComplete |-> c, nextAction |-> a] : c \in BOOLEAN, a \in NextActions}

\* faulty variant: the budget test is off by one
ShouldContinueOnceMore(isComplete, lc) == ~isComplete /\ lc <= max_loops

\* if not final_summary_result.isComplete and loop_count < max_loops
ShouldContinue(isComplete, lc) == ~isComplete /\ lc < max_loops

\* faulty variant: only a missing nextAction falls back to the message
NextMessageUnlessNone(nextAction, message) ==
  IF nextAction = NoNext THEN message ELSE nextAction

\* next_user_message = final_summary_result.nextAction or user_message
NextMessage(nextAction, message) ==
  IF nextAction = NoNext \/ nextAction = "" THEN message ELSE nextAction

\* faulty variant: the note is appended beyond the budget only
BudgetNoteBeyond(lc) == IF lc > max_loops THEN 1 ELSE 0

\* if loop_count >= max_loops: the budget note is appended
BudgetNote(lc) == IF lc >= max_loops THEN 1 ELSE 0

\* lines 414-429: the synthesis collaborator raises or its output is not a
\* FinalSummary
SynthesisFails ==
  /\ pc = "synth"
  /\ Terminate("synth_error", <<Completion(loop_count, TRUE)>>, 0, 0)
  /\ UNCHANGED <<ack, prev_summary, loop_count, user_message, roundVars, planCalls, synthCalls>>

\* lines 388-396: the round continues: the controller calls itself, and the
\* callee starts with locals of its own
ContinueWith(o) ==
  /\ ShouldContinue(o.isComplete, loop_count)
  /\ pc' = "enter"
  /\ loop_count' = loop_count + 1
  /\ user_message' = NextMessage(o.nextAction, user_message)
  /\ prev_summary' = [isComplete |-> o.isComplete, nextAction |-> o.nextAction, decoded |-> TRUE]
  /\ FreshRound
  /\ UNCHANGED <<ack, planCalls, synthCalls, endRequests, completions, errors,
                 notes, exit>>

Continue == pc = "synth" /\ \E o \in Summaries : ContinueWith(o)

\* lines 397-412: the request is complete or the budget is used up
CompleteWith(o) ==
  /\ ~ShouldContinue(o.isComplete, loop_count)
  /\ final_summary' = [isComplete |-> o.isComplete, decoded |-> TRUE]
  /\ Terminate("complete", <<Completion(loop_count, FALSE)>>, 0, BudgetNote(loop_count))
  /\ UNCHANGED <<ack, prev_summary, loop_count, user_message, response, plan, step, phase, st,
                 out, ctx, result_by_agent, agent_results, order, synthCtx, planCalls,
                 synthCalls, runCalls>>

Complete == pc = "synth" /\ \E o \in Summaries : CompleteWith(o)

\* ---------------------------------------------------------- specification
\* the whole controller, over short plans
Next ==
  \/ AddMessage
  \/ AddMessageReturn
  \/ Enter
  \/ EnterRaise
  \/ PlanRaise
  \/ Plan(PlannerOutputs)
  \/ \E i \in TaskIdx : StartParallel(i)
  \/ \E i \in TaskIdx, o \in Outcomes : FinishParallel(i, o)
  \/ Join
  \/ \E i \in TaskIdx : StartIsolated(i)
  \/ \E i \in TaskIdx, o \in Outcomes : FinishIsolated(i, o)
  \/ AdvanceStep
  \/ StartSynthesis
  \/ SynthesisFails
  \/ Continue
  \/ Complete

Spec == Init /\ [][Next]_vars

\* the same under the proviso that the loop runs what is ready and every
\* collaborator call returns or raises
FairSpec == Spec /\ WF_vars(Next)

\* one round, over the long and the malformed plans: the synthesis
\* collaborator answers isComplete = true or fails
NextRound ==
  \/ AddMessage
  \/ AddMessageReturn
  \/ Enter
  \/ EnterRaise
  \/ PlanRaise
  \/ Plan(RoundOutputs)
  \/ \E i \in TaskIdx : StartParallel(i)
  \/ \E i \in TaskIdx, o \in Outcomes : FinishParallel(i, o)
  \/ Join
  \/ \E i \in TaskIdx : StartIsolated(i)
  \/ \E i \in TaskIdx, o \in Outcomes : FinishIsolated(i, o)
  \/ AdvanceStep
  \/ StartSynthesis
  \/ SynthesisFails
  \/ Complete

SpecRound == Init /\ [][NextRound]_vars


\* ------------------------------------------------------------------ claims
Key(i) == StepKey(Tasks[i])
Running == {i \in TaskIdx : st[i] = "running"}
Started(i) == st[i] # "pending"
Launched(i) == runCalls[i] > 0
Planned == plan.source # "none"

\* C1: steps act as barriers in ascending order: a task has started only if
\* every task (PARALLEL or ISOLATED) of every smaller step of the plan has
\* completed and is recorded, whatever the order the PARALLEL tasks finished in.
\* The step of a task is the key the scheduler groups it under.
C1_StepBarrier ==
  \A i \in TaskIdx : \A j \in TaskIdx :
    (Started(i) /\ Key(j) < Key(i)) => st[j] = "recorded"

\* two PARALLEL tasks of one step are recorded, the second with a result the
\* first did not give, and a task of a later step is running
C1_Witness ==
  \E i \in TaskIdx : \E j \in TaskIdx : \E k \in TaskIdx :
    /\ i < j /\ Key(i) = Key(j) /\ Key(j) < Key(k)
    /\ IsParallel(Tasks[i]) /\ IsParallel(Tasks[j])
    /\ st[i] = "recorded" /\ st[j] = "recorded" /\ out[i] # out[j]
    /\ st[k] = "running"

\* C2: while an ISOLATED task is executing no other task is: the running
\* tasks are PARALLEL tasks of the step at hand only, or one ISOLATED task
\* alone, and then no PARALLEL sibling is left unrecorded.
C2_IsolatedAlone ==
  \/ \A i \in Running : IsParallel(Tasks[i]) /\ Key(i) = step
  \/ \E i \in Running :
       /\ Running = {i}
       /\ IsIsolated(Tasks[i])
       /\ \A j \in TaskIdx : (j # i /\ Key(j) = Key(i)) => st[j] \in {"pending", "recorded"}
       /\ \A j \in TaskIdx : (Key(j) = Key(i) /\ IsParallel(Tasks[j])) => st[j] = "recorded"

\* an ISOLATED task runs; a PARALLEL sibling is recorded and a second
\* ISOLATED sibling waits
C2_Witness ==
  \E i \in TaskIdx : \E j \in TaskIdx : \E k \in TaskIdx :
    /\ Key(i) = Key(j) /\ Key(i) = Key(k)
    /\ IsIsolated(Tasks[i]) /\ st[i] = "running"
    /\ IsParallel(Tasks[j]) /\ st[j] = "recorded" /\ Launched(j)
    /\ IsIsolated(Tasks[k]) /\ st[k] = "pending"

\* C3: every terminal transition emits exactly one completion record: a
\* request whose controller has returned (end_request was called: no run, no
\* agent, complete, budget spent, synthesis failed, unhandled error) has one
\* record, never none and never two.
C3_OneCompletionRecord ==
  pc = "done" => Len(completions) = 1

\* C4: the loop budget is a hard bound: loop_count never exceeds max_loops,
\* the planning collaborator is called at most max_loops times, and no call
\* of the controller is pending once max_loops rounds were planned.
C4_LoopBudget ==
  /\ loop_count <= max_loops
  /\ planCalls <= max_loops
  /\ pc = "enter" => planCalls < max_loops
  /\ pc \in {"planning", "exec", "synth"} => planCalls = loop_count

\* the third round's synthesis said isComplete = false and the request ended
C4_Witness ==
  /\ pc = "done"
  /\ exit = "complete"
  /\ loop_count = max_loops
  /\ planCalls = max_loops
  /\ final_summary.decoded
  /\ ~final_summary.isComplete

\* C5: a round whose normalized plan has isRunAgent = false ends at once: no
\* task starts, run_agent_once and the synthesis collaborator are not called
\* in the round, the request ends and the planner is not called again.
C5_NoRunEndsRound ==
  (Planned /\ ~plan.isRunAgent) =>
    /\ pc = "done"
    /\ exit = "no_run"
    /\ endRequests = 1
    /\ \A i \in TaskIdx : st[i] = "pending" /\ runCalls[i] = 0
    /\ agent_results = << >>
    /\ planCalls = loop_count
    /\ synthCalls = loop_count - 1

\* a second round's plan has isRunAgent = false and names a registered agent
C5_Witness ==
  /\ Planned
  /\ ~plan.isRunAgent
  /\ loop_count = 2
  /\ \E i \in TaskIdx : get_agent(Tasks[i].name)


CountName(seq, n) == Cardinality({k \in 1..Len(seq) : seq[k].name = n})

\* C6 as stated: B lies in a later step than A and its dependsOn contains A:
\* the context handed to B's agent holds exactly one result of A, also when
\* A lists B in outputsTo.
C6_ContextHoldsDependencyOnce ==
  \A i \in TaskIdx : \A j \in TaskIdx :
    (Launched(i) /\ Key(j) < Key(i) /\ Contains(Tasks[i].dependsOn, Tasks[j].name))
      => CountName(ctx[i], Tasks[j].name) = 1

\* C6 as amended: B lies in a later step than A and its dependsOn lists A
\* once: the context handed to B's agent holds exactly one result under A's
\* name, a result a task of that name returned, also when A lists B in
\* outputsTo.
C6_ContextHoldsListedOnce ==
  \A i \in TaskIdx : \A j \in TaskIdx :
    (Launched(i) /\ Key(j) < Key(i) /\ Count(Tasks[i].dependsOn, Tasks[j].name) = 1)
      => /\ CountName(ctx[i], Tasks[j].name) = 1
         /\ \A k \in 1..Len(ctx[i]) :
              ctx[i][k].name = Tasks[j].name =>
                \E m \in TaskIdx : Tasks[m].name = ctx[i][k].name /\ out[m] = ctx[i][k]

\* B runs with one result of A in its context; B depends on A and A lists B
\* in outputsTo
C6_Witness ==
  \E i \in TaskIdx : \E j \in TaskIdx :
    /\ st[i] = "running"
    /\ Key(j) < Key(i)
    /\ Tasks[i].dependsOn = <<Tasks[j].name>>
    /\ Contains(Tasks[j].outputsTo, Tasks[i].name)
    /\ ctx[i] = <<out[j]>>
    /\ out[j].kind = "ok"

\* C7: a task without a registered agent never reaches run_agent_once; what
\* it returns is the "not found" result, which is recorded in the results
\* list and in the result map; and once the loop is over every task is
\* recorded and every task with a registered agent was run once.
C7_NotFoundIsContained ==
  /\ \A i \in TaskIdx :
       Tasks[i].name \in Unregistered =>
         /\ runCalls[i] = 0
         /\ st[i] \in {"pending", "finished", "recorded"}
         /\ st[i] # "pending" => out[i] = [name |-> Tasks[i].name, kind |-> "notfound"]
         /\ st[i] = "recorded" =>
              /\ \E k \in 1..Len(order) : order[k] = i /\ agent_results[k] = out[i]
              /\ result_by_agent[Tasks[i].name] = out[i]
  /\ pc = "synth" =>
       \A i \in TaskIdx :
         /\ st[i] = "recorded"
         /\ Tasks[i].name \in Registered => runCalls[i] = 1

\* the loop is over: a step held a task without an agent between two tasks
\* with one, and both of those ran
C7_Witness ==
  /\ pc = "synth"
  /\ \E i \in TaskIdx : \E j \in TaskIdx : \E k \in TaskIdx :
       /\ i < j /\ j < k
       /\ Key(i) = Key(j) /\ Key(j) = Key(k)
       /\ Tasks[j].name \in Unregistered
       /\ out[j].kind = "notfound"
       /\ runCalls[i] = 1 /\ runCalls[k] = 1

\* C8: every task of the normalized plan has step >= 1, and so has every key
\* of the step grouping.
C8_StepsAtLeastOne ==
  Planned => \A i \in TaskIdx : Tasks[i].step >= 1 /\ Key(i) >= 1

\* what the planner returned cannot be decoded as a plan
Undecodable(r) ==
  \/ r.kind \in {"invalid", "scalar"}
  \/ r.isRunAgent = "other"
  \/ r.agentKind = "other"

\* C9: a planner output that cannot be decoded as a plan (no JSON, no JSON
\* object, a shape the schema rejects) yields the fallback plan, isRunAgent =
\* false and no task, and the round ends with no agent run.
C9_UndecodableFallsBack ==
  Undecodable(response) =>
    /\ plan = [isRunAgent |-> FALSE, agent |-> << >>, source |-> "fallback"]
    /\ pc = "done"
    /\ exit = "no_run"
    /\ agent_results = << >>
    /\ synthCalls = 0

\* the planner returned a JSON object the schema rejects, with a task in it
C9_Witness ==
  /\ response.kind = "object"
  /\ response.isRunAgent = "other"
  /\ response.agentKind = "list"
  /\ plan.source = "fallback"
  /\ pc = "done"

Pos(i) == CHOOSE k \in 1..Len(order) : order[k] = i

\* C10 as stated: the results of two tasks of one step lie in agent_results
\* in the order of the two tasks in the plan, whatever their run modes, and
\* a result the task has returned is in the result map.
C10_ResultsInPlanOrder ==
  /\ \A i \in TaskIdx : \A j \in TaskIdx :
       (i < j /\ Key(i) = Key(j) /\ st[i] = "recorded" /\ st[j] = "recorded")
         => Pos(i) < Pos(j)
  /\ \A i \in TaskIdx :
       st[i] \in {"finished", "recorded"} => result_by_agent[Tasks[i].name] # NoResult

\* C10 as amended: agent_results holds one entry for each recorded task, the
\* result it returned; the results of two tasks of one step with the same run
\* mode lie in plan order, and those of the PARALLEL tasks of a step before
\* those of its ISOLATED tasks; a result is put in the result map when it is
\* appended to the list (a PARALLEL result when the batch has joined).
C10_ResultsInScheduleOrder ==
  /\ Len(order) = Len(agent_results)
  /\ \A k \in 1..Len(order) : agent_results[k] = out[order[k]]
  /\ \A i \in TaskIdx : st[i] = "recorded" <=> (\E k \in 1..Len(order) : order[k] = i)
  /\ \A k \in 1..Len(order) : \A m \in 1..Len(order) : (k # m) => order[k] # order[m]
  /\ \A i \in TaskIdx : \A j \in TaskIdx :
       (i # j /\ st[i] = "recorded" /\ st[j] = "recorded" /\ Key(i) = Key(j)) =>
         /\ (i < j /\ Tasks[i].runMode = Tasks[j].runMode) => Pos(i) < Pos(j)
         /\ (IsParallel(Tasks[i]) /\ IsIsolated(Tasks[j])) => Pos(i) < Pos(j)
  /\ \A i \in TaskIdx : st[i] = "recorded" => result_by_agent[Tasks[i].name] # NoResult
  /\ \A n \in Names :
       result_by_agent[n] # NoResult =>
         \E i \in TaskIdx : st[i] = "recorded" /\ Tasks[i].name = n /\ out[i] = result_by_agent[n]

\* the loop is over: an ISOLATED task stands in the plan before two PARALLEL
\* tasks of its step, and its result lies behind theirs
C10_Witness ==
  /\ pc = "synth"
  /\ \E i \in TaskIdx : \E j \in TaskIdx : \E k \in TaskIdx :
       /\ i < j /\ j < k
       /\ Key(i) = Key(j) /\ Key(j) = Key(k)
       /\ IsIsolated(Tasks[i]) /\ IsParallel(Tasks[j]) /\ IsParallel(Tasks[k])
       /\ Pos(j) < Pos(k) /\ Pos(k) < Pos(i)
       /\ out[j] # out[k]


\* the tasks whose agent raised or returned nothing
Failed == {i \in TaskIdx : out[i].kind \in {"error", "failed"}}

\* the step loop has a next step: a coroutine to start, a running agent to
\* return, a batch to join, a step to leave
LoopCanStep ==
  \/ \E i \in TaskIdx : ParMayStart(i) \/ IsoMayStart(i)
  \/ \E i \in ParallelIdx : phase = "par" /\ st[i] = "running"
  \/ \E i \in IsolatedIdx : phase = "iso" /\ st[i] = "running"
  \/ phase = "par" /\ BatchJoined
  \/ StepDone

\* C11: a failure of one task is contained in that task: a task whose agent
\* raised or returned a falsy result yields the failure or the generic error
\* result under its name; the step loop goes on while a task has failed; and
\* once the loop is left with a failed task, it was left to synthesis, with
\* every task of the plan recorded and every registered one run once.
C11_FailureIsContained ==
  /\ \A i \in TaskIdx :
       (st[i] \in {"finished", "recorded"} /\ Tasks[i].name \in Registered) =>
         /\ out[i] \in {[name |-> Tasks[i].name, kind |-> k] : k \in {"ok", "error", "failed"}}
         /\ runCalls[i] = 1
  /\ (pc = "exec" /\ Failed # {}) => (exit = "none" /\ LoopCanStep)
  /\ (pc # "exec" /\ Failed # {}) =>
       /\ pc \in {"synth", "done"}
       /\ synthCalls = 1
       /\ exit \in {"none", "complete", "synth_error"}
       /\ \A j \in TaskIdx :
            st[j] = "recorded" /\ (Tasks[j].name \in Registered => runCalls[j] = 1)

\* synthesis is reached after an agent raised in the batch of a step, the
\* agent of an ISOLATED sibling returned nothing, and a task of a later
\* step ran
C11_Witness ==
  /\ pc = "synth"
  /\ \E i \in TaskIdx : \E j \in TaskIdx : \E k \in TaskIdx :
       /\ Key(i) = Key(j) /\ Key(j) < Key(k)
       /\ IsParallel(Tasks[i]) /\ out[i].kind = "failed"
       /\ IsIsolated(Tasks[j]) /\ out[j].kind = "error"
       /\ out[k].kind = "ok"

\* C12: when the synthesis collaborator raises or its output is no
\* FinalSummary, the request ends in that iteration: no further planning or
\* synthesis call, end_request, and one completion record that carries the
\* error and the loop_count of the iteration.
C12_SynthesisErrorEndsRequest ==
  exit = "synth_error" =>
    /\ pc = "done"
    /\ completions =
         <<[loopCount |-> loop_count, maxLoops |-> max_loops, complete |-> TRUE, error |-> TRUE]>>
    /\ endRequests = 1
    /\ planCalls = loop_count
    /\ synthCalls = loop_count
    /\ final_summary = NoSummary
    /\ notes = 0

\* synthesis failed in the second iteration
C12_Witness ==
  /\ exit = "synth_error"
  /\ loop_count = 2
  /\ Len(completions) = 1
  /\ completions[1].loopCount = 2


\* C13: a round continues only when synthesis returned isComplete = false
\* with loop_count < max_loops, and it then always does; the next round has
\* loop_count + 1 and as instruction nextAction when that is present and not
\* empty, else the instruction of the round that ended; the continuing round
\* emits no completion record and does not end the request; the next round
\* starts with a call of the planning collaborator.
C13_Continuation ==
  [][/\ (pc = "synth" /\ pc' = "enter") =>
          /\ loop_count < max_loops
          /\ loop_count' = loop_count + 1
          /\ prev_summary'.decoded
          /\ ~prev_summary'.isComplete
          /\ user_message' = IF prev_summary'.nextAction \in {NoNext, ""}
                             THEN user_message
                             ELSE prev_summary'.nextAction
          /\ completions' = completions
          /\ endRequests' = endRequests
          /\ exit' = "none"
     /\ (pc = "synth" /\ exit' = "complete") =>
          (final_summary'.isComplete \/ loop_count >= max_loops)
     /\ (pc = "enter" /\ pc' = "planning") =>
          (planCalls' = planCalls + 1 /\ loop_count' = loop_count)
    ]_vars

\* the third round is being planned: the first continued on a nextAction,
\* the second on an empty one, which kept the instruction
C13_Witness ==
  /\ pc = "planning"
  /\ loop_count = 3
  /\ planCalls = 3
  /\ user_message = "n"
  /\ prev_summary = [isComplete |-> FALSE, nextAction |-> "", decoded |-> TRUE]
  /\ completions = << >>

\* C14: isRunAgent is true and no task name of the plan resolves to a
\* registered agent: the request ends in that iteration with one error on
\* the conversation, no agent run, no synthesis call and no further planning.
C14_NoAgentEndsRound ==
  (Planned /\ plan.isRunAgent /\ \A i \in TaskIdx : Tasks[i].name \notin Registered) =>
    /\ pc = "done"
    /\ exit = "no_agents"
    /\ errors = 1
    /\ endRequests = 1
    /\ \A i \in TaskIdx : st[i] = "pending" /\ runCalls[i] = 0
    /\ agent_results = << >>
    /\ planCalls = loop_count
    /\ synthCalls = loop_count - 1

\* the plan of the second iteration names two tasks, none with an agent
C14_Witness ==
  /\ Planned
  /\ plan.isRunAgent
  /\ Len(Tasks) = 2
  /\ \A i \in TaskIdx : Tasks[i].name \in Unregistered
  /\ loop_count = 2
  /\ errors = 1

\* C15: add_message returns {"status": "processing", ...} without waiting
\* for the worker: while it has not returned, the worker has called no
\* collaborator and reached no outcome; and whatever outcome the worker
\* reaches, the value returned is the same.
C15_IntakeDoesNotBlock ==
  /\ ack \in {"none", "processing"}
  /\ ack = "none" =>
       /\ pc \in {"intake", "enter"}
       /\ planCalls = 0
       /\ exit = "none"
       /\ endRequests = 0
  /\ pc \in {"done", "escaped"} => ack = "processing"

\* add_message has returned and the worker has not run yet
C15_Witness ==
  /\ ack = "processing"
  /\ pc = "enter"
  /\ loop_count = first_loop
  /\ planCalls = 0


\* C16: no task runs its agent twice and a task without a registered agent
\* runs none; the synthesis collaborator is not called while the step loop
\* runs, and is called once; when it is called every task is recorded, every
\* task with a registered agent has run it once, agent_results holds one
\* entry for each task of the plan, the result that task returned, and the
\* context of the final prompt is made of exactly those entries (for a plan
\* of one task: of that task's result alone).
C16_OneRunOneEntry ==
  /\ \A i \in TaskIdx :
       /\ runCalls[i] <= 1
       /\ Tasks[i].name \notin Registered => runCalls[i] = 0
  /\ pc = "exec" => (synthCalls = 0 /\ synthCtx = << >>)
  /\ synthCalls <= 1
  /\ synthCalls = 1 =>
       /\ \A i \in TaskIdx :
            /\ st[i] = "recorded"
            /\ Tasks[i].name \in Registered => runCalls[i] = 1
            /\ Cardinality({k \in 1..Len(order) : order[k] = i}) = 1
       /\ Len(agent_results) = Len(Tasks)
       /\ Len(order) = Len(Tasks)
       /\ \A k \in 1..Len(order) : agent_results[k] = out[order[k]]
       /\ synthCtx = agent_results
       /\ Len(Tasks) = 1 => synthCtx = <<out[1]>>

\* synthesis is called for a plan of three tasks, one without an agent and
\* one whose agent raised
C16_Witness ==
  /\ pc = "synth"
  /\ synthCalls = 1
  /\ Len(Tasks) = 3
  /\ Len(synthCtx) = 3
  /\ \E i \in TaskIdx : out[i].kind = "notfound"
  /\ \E i \in TaskIdx : out[i].kind = "failed"
  /\ \E i \in TaskIdx : out[i].kind = "ok"

\* C17: a request that ends because the budget is used up, synthesis having
\* returned isComplete = false, ends at loop_count = max_loops with the
\* budget note appended to the answer.
C17_BudgetNoteWhenExhausted ==
  (exit = "complete" /\ final_summary.decoded /\ ~final_summary.isComplete) =>
    /\ loop_count = max_loops
    /\ notes = 1
    /\ synthCalls = max_loops

\* three rounds ended incomplete and the note was appended
C17_Witness ==
  /\ exit = "complete"
  /\ ~final_summary.isComplete
  /\ notes = 1
  /\ synthCalls = max_loops
  /\ prev_summary.decoded

\* C18: a request whose last synthesis returned isComplete = true ends with
\* no budget note, at every loop_count, max_loops included.
C18_NoNoteWhenComplete ==
  (exit = "complete" /\ final_summary.isComplete) => notes = 0

\* C19: within a step the PARALLEL tasks are launched in one batch, in list
\* order, and an ISOLATED task of the step starts only when every PARALLEL
\* task of the step has finished and is recorded; the ISOLATED tasks run one
\* after another in plan order.
C19_BatchBeforeIsolated ==
  /\ \A i \in TaskIdx : \A j \in TaskIdx :
       (Started(i) /\ IsIsolated(Tasks[i]) /\ IsParallel(Tasks[j]) /\ Key(i) = Key(j))
         => st[j] = "recorded"
  /\ \A i \in TaskIdx : \A j \in TaskIdx :
       (i < j /\ Started(j) /\ IsIsolated(Tasks[i]) /\ IsIsolated(Tasks[j]) /\ Key(i) = Key(j))
         => st[i] = "recorded"
  /\ \A i \in TaskIdx : \A j \in TaskIdx :
       (i < j /\ Started(j) /\ IsParallel(Tasks[i]) /\ IsParallel(Tasks[j]) /\ Key(i) = Key(j))
         => Started(i)
  /\ (pc = "exec" /\ phase = "iso") => \A j \in ParallelIdx : st[j] = "recorded"

\* the second ISOLATED task of a step runs; the first is recorded, and so is
\* the PARALLEL task that stands between them in the plan
C19_Witness ==
  \E i \in TaskIdx : \E j \in TaskIdx : \E k \in TaskIdx :
    /\ i < j /\ j < k
    /\ Key(i) = Key(j) /\ Key(j) = Key(k)
    /\ IsIsolated(Tasks[i]) /\ st[i] = "recorded" /\ Launched(i)
    /\ IsParallel(Tasks[j]) /\ st[j] = "recorded" /\ Launched(j)
    /\ IsIsolated(Tasks[k]) /\ st[k] = "running"

\* task j had returned the entry e, and was recorded, before task i was launched
EarlierStep(j, i) == Key(j) < Key(i)
SameStepBefore(j, i) ==
  /\ Key(j) = Key(i)
  /\ IsIsolated(Tasks[i])
  /\ IsParallel(Tasks[j]) \/ j < i

\* C20 as stated: every entry of the context of a task is the result of a
\* task of a strictly earlier step.
C20_ContextFromEarlierSteps ==
  \A i \in TaskIdx :
    Launched(i) =>
      \A k \in 1..Len(ctx[i]) :
        \E j \in TaskIdx :
          Tasks[j].name = ctx[i][k].name /\ out[j] = ctx[i][k] /\ EarlierStep(j, i)

\* C20 as amended: every entry of the context of a task is the result of a
\* task recorded before it was launched: a task of a strictly earlier step,
\* or, for an ISOLATED task, a PARALLEL task of its own step or an ISOLATED
\* task of its own step that precedes it in the plan.  A PARALLEL task is
\* never handed the result of a task of its own step, and no task that of a
\* later step.
C20_ContextFromRecordedTasks ==
  \A i \in TaskIdx :
    Launched(i) =>
      \A k \in 1..Len(ctx[i]) :
        \E j \in TaskIdx :
          /\ Tasks[j].name = ctx[i][k].name
          /\ out[j] = ctx[i][k]
          /\ EarlierStep(j, i) \/ SameStepBefore(j, i)

\* an ISOLATED task runs with the result of a PARALLEL task of its own step,
\* which it depends on, in its context
C20_Witness ==
  \E i \in TaskIdx : \E j \in TaskIdx :
    /\ st[i] = "running"
    /\ IsIsolated(Tasks[i]) /\ IsParallel(Tasks[j])
    /\ Key(i) = Key(j)
    /\ Contains(Tasks[i].dependsOn, Tasks[j].name)
    /\ ctx[i] # << >>
    /\ \A k \in 1..Len(ctx[i]) : ctx[i][k] = out[j]


\* the names task i depends on that have a recorded result, in declared order
DepSources(i) ==
  LET has(n) == result_by_agent[n] # NoResult
  IN SelectSeq(Tasks[i].dependsOn, has)

\* the tasks that name task i in outputsTo, are not among its dependencies
\* and have a recorded result, in plan order
SenderSources(i) ==
  LET sends(j) == /\ Contains(Tasks[j].outputsTo, Tasks[i].name)
                  /\ ~Contains(Tasks[i].dependsOn, Tasks[j].name)
                  /\ result_by_agent[Tasks[j].name] # NoResult
      senders == SelectSeq([j \in 1..Len(Tasks) |-> j], sends)
  IN [k \in 1..Len(senders) |-> Tasks[senders[k]].name]

C22_OneWriterPerKey ==
  /\ \A i \in TaskIdx : \A j \in TaskIdx :
       (i # j /\ st[i] = "recorded" /\ st[j] = "recorded") => Tasks[i].name # Tasks[j].name
  /\ \A i \in TaskIdx :
       st[i] = "recorded" => result_by_agent[Tasks[i].name] = out[i]

\* C23: no error escapes the worker: every error of an iteration ends the
\* request with end_request and a completion record that carries the error.
C23_NoErrorEscapes ==
  /\ pc # "escaped"
  /\ exit \in {"unhandled", "reenter_error", "synth_error", "escaped"} =>
       /\ endRequests = 1
       /\ Len(completions) = 1
       /\ completions[1].error


\* C24: every accepted request reaches the terminal outcome DONE within
\* max_loops rounds: the worker stops nowhere but at DONE, and the planning
\* collaborator is called at most max_loops times.
C24_StopsOnlyAtDone ==
  /\ pc = "done" \/ ENABLED Next
  /\ planCalls <= max_loops

\* what holds of C24: under the proviso the worker always stops, at DONE or
\* with the error of line 144 leaving it
C24_WorkerStops == <>(pc \in {"done", "escaped"})


\* the place of task j in the schedule the plan fixes: steps in ascending
\* order, in a step the PARALLEL tasks in plan order, then the ISOLATED ones
Rank(j) ==
  LET t == Tasks[j]
      s == StepKey(t)
      par == IsParallel(t)
      before(k) ==
        LET u == Tasks[k]
            q == StepKey(u)
        IN \/ q < s
           \/ /\ q = s
              /\ IF par THEN IsParallel(u) /\ k < j
                        ELSE IsParallel(u) \/ (IsIsolated(u) /\ k < j)
  IN Cardinality({k \in TaskIdx : before(k)}) + 1

\* how many tasks of the schedule are recorded when task i is launched: for
\* a PARALLEL task those of the earlier steps, for an ISOLATED one all the
\* tasks before it
SeenBy(i) ==
  IF IsParallel(Tasks[i])
  THEN Cardinality({k \in TaskIdx : Key(k) < Key(i)})
  ELSE Rank(i) - 1

\* the result map after the first n recorded tasks, given what each task
\* returned: a name holds what its last writer among them returned
MapAfter(n) ==
  [name \in Names |->
     LET writers == {r \in 1..n : Tasks[order[r]].name = name}
     IN IF writers = {} THEN NoResult ELSE out[order[Max(writers)]]]

\* C25: the plan and what each task returned fix the results list, the
\* result map and the context of every task, whatever the interleaving and
\* the finish order of a batch: the tasks are recorded in the schedule of the
\* plan, the list holds what they returned in that order, the map is the one
\* after the recorded tasks, the context of a task is built from the map
\* after the tasks the schedule puts before it (for a PARALLEL task: the
\* tasks of earlier steps only), and the map does not change while a batch
\* is in flight.
C25_InterleavingIndependent ==
  /\ \A r \in 1..Len(order) : Rank(order[r]) = r
  /\ \A k \in 1..Len(order) : agent_results[k] = out[order[k]]
  /\ result_by_agent = MapAfter(Len(order))
  /\ \A i \in TaskIdx :
       Launched(i) =>
         /\ SeenBy(i) <= Len(order)
         /\ ctx[i] = Context(Tasks, Tasks[i], MapAfter(SeenBy(i)))
  /\ (pc = "exec" /\ phase = "par") =>
       Len(order) = Cardinality({k \in TaskIdx : Key(k) < step})

\* synthesis is reached: a PARALLEL task that depends on a PARALLEL task of
\* its own step, which returned a text, ran with an empty context
C25_Witness ==
  /\ pc = "synth"
  /\ \E i \in TaskIdx : \E j \in TaskIdx :
       /\ i < j
       /\ Key(i) = Key(j)
       /\ IsParallel(Tasks[i]) /\ IsParallel(Tasks[j])
       /\ Contains(Tasks[j].dependsOn, Tasks[i].name)
       /\ out[i].kind = "ok"
       /\ Launched(j)
       /\ ctx[j] = << >>


\* C26: a request whose worker has stopped has had end_request called exactly
\* once, a request still in flight (a round that goes on into re-planning
\* included) has not had it called, and nothing runs after the call.
C26_EndRequestOnce ==
  /\ endRequests <= 1
  /\ pc \in {"done", "escaped"} => endRequests = 1
  /\ pc \notin {"done", "escaped"} => endRequests = 0

\* the same on the paths the handlers of the worker cover
C26_EndRequestOnceWhenHandled ==
  /\ endRequests <= 1
  /\ pc = "done" <=> endRequests = 1

=============================================================================
